---- MODULE Spec2Model ----
(***************************************************************************)
(* Sonar Light Switch v3.0: the cooperative control loop of the sketch.   *)
(* One Loop step is one execution of loop(): Wi-Fi check, sensor          *)
(* sampling, day/night gate, stairway light, porch on / auto-off, log     *)
(* drain or keep-alive, status LEDs, delay.                               *)
(*                                                                         *)
(* Clock values are 32-bit words (unsigned long on the AVR).  A word is   *)
(* written as the signed value of its bit pattern, -2^31 .. 2^31-1, so    *)
(* 0xFFFFFFFF is -1; arithmetic is done on 16-bit halves and is exact     *)
(* modulo 2^32.                                                            *)
(***************************************************************************)
EXTENDS Integers, Sequences, FiniteSets, TLC

\* ------------------------------------------------------------ constants

ping_range == 24 * 74 * 2
light_length == 60000
wifi_try_time == 60000
heartbeatInterval == 1800000
ssl_keepalive_interval == 25000
porch_duration == 300000
porch_window_max == 40000
porch_window_min == 4000
quiet_period == 3000
porch_retry_nowifi == 10000
porch_retry_noconn == 60000
epoch_floor == 1735689600
sun_refresh == 3600000
dusk_margin == 15
fallback_dusk == 1020
fallback_dawn == 480
led_window == 300000
TickDelay == 100

\* v2.x: the pause after a failed connection to the porch switch (15 min);
\* v3.0 has no such pause
connect_try_time == 900000

\* ------------------------------------------------- 32-bit word arithmetic

Half == 65536

Hi(w) == w \div Half

Lo(w) == w % Half

\* the word with high half h (any integer, reduced modulo 2^16) and low half l
Word(h, l) == (((h + 32768) % Half) - 32768) * Half + l

\* a + b modulo 2^32
ULPlus(a, b) ==
    LET l == Lo(a) + Lo(b)
    IN  Word(Hi(a) + Hi(b) + (l \div Half), l % Half)

\* a - b modulo 2^32
ULMinus(a, b) ==
    LET l == Lo(a) - Lo(b)
    IN  Word(Hi(a) - Hi(b) + (l \div Half), l % Half)

\* unsigned a < b
ULess(a, b) == IF (a < 0) = (b < 0) THEN a < b ELSE b < 0

\* (long) w >= 0
LongNonNeg(w) == w >= 0

\* variant: the clock value itself, also when it is 0
StampRaw(t) == t

\* t ? t : 1
Stamp(t) == IF t # 0 THEN t ELSE 1

\* millis() ? millis() : 1: the clock is read twice, once for the test and
\* once for the value
StampTwice(first, second) == IF first # 0 THEN second ELSE 1

\* unsigned w / 1000
ULDivK(w) == IF w >= 0 THEN w \div 1000 ELSE 4294967 + ((296 + w) \div 1000)

\* sensor & 1, sensor & 2
Bit1(sensor) == sensor % 2 = 1

Bit2(sensor) == (sensor \div 2) % 2 = 1

\* ------------------------------------------------------- logging registry

events ==
    << [timestamp |-> "logTimeWiFi",     msg |-> "WiFi RECONNECTED"],
       [timestamp |-> "logTimeOn",       msg |-> "Stair light ON"],
       [timestamp |-> "logTimePorchOn",  msg |-> "Porch light ON"],
       [timestamp |-> "logTimeOff",      msg |-> "Stair light OFF"],
       [timestamp |-> "logTimeKasaFail", msg |-> "Kasa Porch Timeout"] >>

numEvents == Len(events)

\* ---------------------------------------------------------- globals

\* the sketch's globals and function statics after static initialisation,
\* the relay and LED pins, and the one WiFiClient ("closed", "kasa", "ssl")
Globals0 ==
    [ pLight |-> FALSE, pLedRelay |-> FALSE, pLedLower |-> FALSE,
      pLedUpper |-> FALSE, LED_BUILTIN |-> FALSE,
      body_time |-> 0, low_detect_time |-> 0, up_detect_time |-> 0,
      lastHeartbeat |-> -1800001, last_ssl_activity |-> 0,
      porch_auto_off_time |-> 0,
      cachedSunrise |-> 0, cachedSunset |-> 0, lastSunUpdate |-> -3600001,
      logTimeOn |-> 0, logTimeOff |-> 0, logTimeWiFi |-> 0,
      logTimePorchOn |-> 0, logTimeKasaFail |-> 0,
      was_connected |-> FALSE, last_wifi_try |-> 0,
      client |-> "closed" ]

\* one entry of the record of what a run of setup() or loop() did
Did(op) == [op |-> op, msg |-> "", ago |-> 0]

\* the machine a function runs on: the globals g, the Wi-Fi link status wl,
\* the record tr of what was done so far, the last return value ret, and the
\* values the run saw: isItDark()'s answer, the deadline read at line 217,
\* the outcome of the test at line 221, the slot the scan of lines 223-224
\* stopped at (0 when it found none), and whether anything was written to the
\* client while it was connected to another peer than the bytes were meant for
Machine(gl, link) ==
    [g |-> gl, wl |-> link, tr |-> <<>>, ret |-> 0,
     saw |-> [dark |-> "unasked", deadline |-> 0, quiet |-> FALSE, pending |-> 0,
              stray |-> FALSE]]

Note(m, op) == [m EXCEPT !.tr = Append(@, Did(op))]

\* the element of a one-element set: Only({ F(x) : x \in {v} }) is F(v) with
\* v computed once, the way a statement uses the result of the one before
Only(S) == CHOOSE x \in S : TRUE

Count(tr, op) == Cardinality({i \in 1..Len(tr) : tr[i].op = op})

\* the run did one of `what`
Tried(tr, what) == \E i \in 1..Len(tr) : tr[i].op \in what

\* millis() read in the middle of a run: the run's start plus the time spent
millis(e) == ULPlus(e.the_time, e.lag)

\* the second of two millis() calls in one expression: the millisecond
\* counter has advanced by e.tick (0 or 1) since the first
millis2(e) == ULPlus(millis(e), e.tick)

\* ------------------------------------------------------------ WiFiClient

\* client.connected()
connected(m) == m.g.client # "closed"

\* variant: the socket is left as it is
client_left_open(m) == m

\* client.stop()
client_stop(m) == [m EXCEPT !.g.client = "closed"]

\* a function that talks to the porch switch returns: the record keeps what
\* the client is connected to at that moment
Returned(m) == [m EXCEPT !.tr = Append(@, [op |-> "returned", msg |-> m.g.client, ago |-> 0])]

\* how many connections to the porch switch this run has tried
KasaTries(m) == Count(m.tr, "connect kasa") + Count(m.tr, "connect kasa failed")

\* the switch accepts this run's next connection: "down" accepts none,
\* "gone" accepts the first only, "on" and "off" accept all
KasaAccepts(m, e) ==
    \/ e.sw \in {"on", "off"}
    \/ e.sw = "gone" /\ KasaTries(m) = 0

\* client.connect(porch_light_IP, porch_light_port): an open socket is
\* stopped first; ret = 1 on success
client_connect(m, e) ==
    IF m.wl /\ KasaAccepts(m, e)
    THEN [Note(m, "connect kasa") EXCEPT !.g.client = "kasa", !.ret = 1]
    ELSE [Note(m, "connect kasa failed") EXCEPT !.g.client = "closed", !.ret = 0]

\* client.connectSSL("docs.google.com", 443)
client_connectSSL(m, e) ==
    IF m.wl /\ e.ssl
    THEN [Note(m, "connect ssl") EXCEPT !.g.client = "ssl", !.ret = 1]
    ELSE [Note(m, "connect ssl failed") EXCEPT !.g.client = "closed", !.ret = 0]

\* ------------------------------------------------------------ Kasa logic

\* the command is written to whatever peer the client is connected to
sendKasaCommand(m, msg) ==
    [m EXCEPT !.tr = Append(@, [op |-> "kasa", msg |-> msg, ago |-> 0]),
              !.saw.stray = @ \/ m.g.client # "kasa"]

get_sysinfo == "{\"system\":{\"get_sysinfo\":{}}}"

set_relay_on == "{\"system\":{\"set_relay_state\":{\"state\":1}}}"

set_relay_off == "{\"system\":{\"set_relay_state\":{\"state\":0}}}"

\* the answer is not looked at
RelayNotAsked(sw) == TRUE

\* resp.indexOf("\"relay_state\":1") == -1: only the answer "on" holds it
RelayNotOn(sw) == sw # "on"

\* lines 263-269, c the machine after the second connect
porch_on_set(c, e) ==
    IF c.ret = 1
    THEN [client_stop(sendKasaCommand(c, set_relay_on))
            EXCEPT !.g.porch_auto_off_time = ULPlus(millis(e), porch_duration),
                   !.g.logTimePorchOn = StampTwice(millis(e), millis2(e))]
    ELSE c

\* variant: a relay found on restarts the five minutes
porch_on_found_extends(q, e) ==
    [q EXCEPT !.g.porch_auto_off_time = ULPlus(millis(e), porch_duration)]

\* line 262 has no else: a relay found on is left alone, q the machine
\* after the query
porch_on_found(q, e) == q

\* lines 254-270, c the machine after the first connect
porch_on_query(c, e) ==
    IF c.ret = 1
    THEN Only({ IF RelayNotOn(e.sw)
                THEN Only({ porch_on_set(c2, e) : c2 \in {client_connect(q, e)} })
                ELSE porch_on_found(q, e)
                : q \in {client_stop(sendKasaCommand(c, get_sysinfo))} })
    ELSE [c EXCEPT !.g.logTimeKasaFail = StampTwice(millis(e), millis2(e))]

porch_on(m0, e) ==
    Only({ Returned(IF ~m.wl THEN m
                    ELSE Only({ porch_on_query(c, e) : c \in {client_connect(m, e)} }))
           : m \in {Note(m0, "porch_on")} })

\* variant: the session to the switch is left open after the 'off' command
porch_off_set_open(c, e) ==
    IF c.ret = 1
    THEN [sendKasaCommand(c, set_relay_off) EXCEPT !.g.porch_auto_off_time = 0]
    ELSE [c EXCEPT !.g.porch_auto_off_time = ULPlus(millis(e), porch_retry_noconn)]

\* lines 275-280, c the machine after the connect
porch_off_set(c, e) ==
    IF c.ret = 1
    THEN [client_stop(sendKasaCommand(c, set_relay_off))
            EXCEPT !.g.porch_auto_off_time = 0]
    ELSE [c EXCEPT !.g.porch_auto_off_time = ULPlus(millis(e), porch_retry_noconn)]

porch_off(m0, e) ==
    Only({ Returned(IF ~m.wl
                    THEN [m EXCEPT !.g.porch_auto_off_time =
                                       ULPlus(millis(e), porch_retry_nowifi)]
                    ELSE Only({ porch_off_set(c, e) : c \in {client_connect(m, e)} }))
           : m \in {Note(m0, "porch_off")} })

\* ------------------------------------------------------- network & utils

keepSSLWarm(m0, e) ==
    Only({ [ (IF ~connected(m)
              THEN Only({ client_connectSSL(n, e) : n \in {client_stop(m)} })
              ELSE [Note(m, "X-KeepAlive") EXCEPT !.saw.stray = @ \/ m.g.client # "ssl"])
             EXCEPT !.g.last_ssl_activity = millis(e) ]
           : m \in {[m0 EXCEPT !.tr = Append(@, [op |-> "keepSSLWarm",
                                                  msg |-> m0.g.client, ago |-> 0])]} })

\* the entry of form_log in the record holds the message it was handed, the
\* entry of keepSSLWarm what the client was connected to when it was called

\* ret = 1 when the request was written
\* lines 301-314, c the machine with the session open (ret = 1) or not
form_log_send(c, e, msg, ago) ==
    IF c.ret = 0 THEN c
    ELSE [c EXCEPT !.tr = Append(@, [op |-> "GET", msg |-> msg, ago |-> ago]),
                   !.saw.stray = @ \/ c.g.client # "ssl",
                   !.g.last_ssl_activity = millis(e),
                   !.ret = 1]

form_log(m0, e, msg, ago) ==
    Only({ IF ~m.wl THEN [m EXCEPT !.ret = 0]
           ELSE Only({ form_log_send(c, e, msg, ago) :
                       c \in { IF ~connected(m)
                               THEN Only({ client_connectSSL(n, e) : n \in {client_stop(m)} })
                               ELSE [m EXCEPT !.ret = 1] } })
           : m \in {[m0 EXCEPT !.tr = Append(@, [op |-> "form_log", msg |-> msg,
                                                  ago |-> ago])]} })

HeartbeatDue(t, lastHeartbeat) == ULess(heartbeatInterval, ULMinus(t, lastHeartbeat))

porchLightHeartbeat(m0, e, t) ==
    Only({ Returned(IF HeartbeatDue(t, m.g.lastHeartbeat)
                    THEN Only({ IF h.wl
                                THEN Only({ IF c.ret = 1
                                            THEN client_stop(sendKasaCommand(c, get_sysinfo))
                                            ELSE c
                                            : c \in {client_connect(h, e)} })
                                ELSE h
                                : h \in {[m EXCEPT !.g.lastHeartbeat = t]} })
                    ELSE m)
           : m \in {Note(m0, "porchLightHeartbeat")} })

\* variant: retry after the keep-alive interval instead of wifi_try_time
WifiRetryDueSoon(now, last_wifi_try) ==
    ~ULess(ULMinus(now, last_wifi_try), ssl_keepalive_interval)

WifiRetryDue(now, last_wifi_try) == ~ULess(ULMinus(now, last_wifi_try), wifi_try_time)

\* WiFi.begin(ssid, passwd): the association succeeds or not
WiFi_begin(m, e) == [Note(m, "WiFi.begin") EXCEPT !.wl = e.join]

\* its millis() reads are made at the top of loop()
wifi_check(m0, e) ==
    Only({ IF m.wl
           THEN IF ~m.g.was_connected
                THEN [m EXCEPT !.g.logTimeWiFi = StampTwice(e.the_time, ULPlus(e.the_time, e.tick)),
                               !.g.was_connected = TRUE, !.ret = 1]
                ELSE [m EXCEPT !.ret = 1]
           ELSE IF ~WifiRetryDue(e.the_time, m.g.last_wifi_try)
                THEN [m EXCEPT !.g.was_connected = FALSE, !.ret = 0]
                ELSE Only({ [b EXCEPT !.ret = IF b.wl THEN 1 ELSE 0]
                            : b \in {WiFi_begin([m EXCEPT !.g.was_connected = FALSE,
                                                          !.g.last_wifi_try = e.the_time],
                                                e)} })
           : m \in {Note(m0, "wifi_check")} })

\* pulseIn() widths dist of the two echoes, 0 on timeout
find_body(distL, distU) ==
    (IF distL < ping_range /\ distL # 0 THEN 1 ELSE 0)
    + (IF distU < ping_range /\ distU # 0 THEN 2 ELSE 0)

\* Dusk2Dawn for San Francisco, minutes after midnight
sf_sunrise(epochTime) == 442

sf_sunset(epochTime) == 1038

SunCacheStale(t, lastSunUpdate) == ULess(sun_refresh, ULMinus(t, lastSunUpdate))

\* variant: the night window is used whatever the epoch
EpochBelowFloorAlways(epochTime) == TRUE

\* epochTime < 1735689600UL, the epoch a 32-bit word like the clock
EpochBelowFloor(epochTime) == ULess(epochTime, epoch_floor)

\* ret = 1 when dark
isItDark(m0, e) ==
    LET currentMin == e.currentMin
    IN  Only({ IF EpochBelowFloor(e.epochTime)
               THEN [m EXCEPT !.ret = IF \/ currentMin >= fallback_dusk
                                         \/ currentMin <= fallback_dawn
                                      THEN 1 ELSE 0]
               ELSE Only({ [c EXCEPT !.ret =
                                 IF \/ currentMin >= c.g.cachedSunset - dusk_margin
                                    \/ currentMin <= c.g.cachedSunrise + dusk_margin
                                 THEN 1 ELSE 0]
                           : c \in { IF SunCacheStale(e.the_time, m.g.lastSunUpdate)
                                     THEN [Note(m, "Dusk2Dawn") EXCEPT
                                             !.g.cachedSunrise = sf_sunrise(e.epochTime),
                                             !.g.cachedSunset = sf_sunset(e.epochTime),
                                             !.g.lastSunUpdate = e.the_time]
                                     ELSE m } })
               : m \in {Note(m0, "isItDark")} })

LedLit(t, detect_time) == ULess(ULMinus(t, detect_time), led_window) /\ detect_time # 0

updateStatusLEDs(m, t) ==
    [m EXCEPT !.g.pLedRelay = m.g.pLight,
              !.g.pLedLower = LedLit(t, m.g.low_detect_time),
              !.g.pLedUpper = LedLit(t, m.g.up_detect_time),
              !.g.LED_BUILTIN = m.wl]

\* ------------------------------------------------------------------ loop

\* variant: expiry only after more than light_length (v2.0 compared with >)
LightExpiredLate(the_time, body_time) ==
    ULess(light_length, ULMinus(the_time, body_time))

\* variant: expiry after the porch window instead of the hold period
LightExpiredEarly(the_time, body_time) ==
    ~ULess(ULMinus(the_time, body_time), porch_window_max)

LightExpired(the_time, body_time) == ~ULess(ULMinus(the_time, body_time), light_length)

\* variant: the window with its two ends included
WalkingUpInclusive(sensor, the_time, low_detect_time) ==
    /\ Bit2(sensor)
    /\ ~ULess(porch_window_max, ULMinus(the_time, low_detect_time))
    /\ ~ULess(ULMinus(the_time, low_detect_time), porch_window_min)

WalkingUp(sensor, the_time, low_detect_time) ==
    /\ Bit2(sensor)
    /\ ULess(ULMinus(the_time, low_detect_time), porch_window_max)
    /\ ULess(porch_window_min, ULMinus(the_time, low_detect_time))

\* variant: idle from ssl_keepalive_interval on
SslIdleInclusive(the_time, last_ssl_activity) ==
    ~ULess(ULMinus(the_time, last_ssl_activity), ssl_keepalive_interval)

\* variant: the scan runs from the end of the table
LastPending(g) ==
    LET pending == {i \in 1..numEvents : g[events[i].timestamp] # 0}
    IN  IF pending = {} THEN 0
        ELSE CHOOSE i \in pending : \A j \in pending : i >= j

\* variant: due only once the deadline has passed
PorchOffDueLate(the_time, porch_auto_off_time) ==
    /\ porch_auto_off_time # 0
    /\ the_time # porch_auto_off_time
    /\ LongNonNeg(ULMinus(the_time, porch_auto_off_time))

PorchOffDue(the_time, porch_auto_off_time) ==
    porch_auto_off_time # 0 /\ LongNonNeg(ULMinus(the_time, porch_auto_off_time))

QuietPeriod(the_time, low_detect_time, up_detect_time) ==
    /\ ULess(quiet_period, ULMinus(the_time, low_detect_time))
    /\ ULess(quiet_period, ULMinus(the_time, up_detect_time))

SslIdle(the_time, last_ssl_activity) ==
    ULess(ssl_keepalive_interval, ULMinus(the_time, last_ssl_activity))

\* the first i with *(events[i].timestamp) > 0, or 0 when every slot is empty
FirstPending(g) ==
    LET pending == {i \in 1..numEvents : g[events[i].timestamp] # 0}
    IN  IF pending = {} THEN 0
        ELSE CHOOSE i \in pending : \A j \in pending : i <= j

\* the body of the sensor branch, lines 196-210
\* lines 201-208, b the machine with body_time set
Lit(b, e, sensor) ==
    IF ~b.g.pLight
    THEN [Note(b, "light on") EXCEPT !.g.pLight = TRUE,
                                     !.g.logTimeOn = Stamp(e.the_time)]
    ELSE IF WalkingUp(sensor, e.the_time, b.g.low_detect_time)
         THEN porch_on(b, e)
         ELSE b

Sensed(m0, e, sensor) ==
    LET t == e.the_time
    IN  Only({ IF i.ret = 1
               THEN Only({ Lit(b, e, sensor) :
                           b \in {[i EXCEPT !.saw.dark = "dark", !.g.body_time = t]} })
               ELSE [i EXCEPT !.saw.dark = "light"]
               : i \in { Only({ isItDark(m, e) :
                                 m \in {[m0 EXCEPT
                                           !.g.low_detect_time = IF Bit1(sensor) THEN t ELSE @,
                                           !.g.up_detect_time = IF Bit2(sensor) THEN t ELSE @]} }) } })

\* variant: loggedSomething is set only when the slot was sent
DrainIdleOnFailure(m, e) ==
    LET t == e.the_time
        idle(n) == IF SslIdle(t, n.g.last_ssl_activity)
                   THEN keepSSLWarm(n, e)
                   ELSE porchLightHeartbeat(n, e, t)
    IN  Only({ IF i # 0
               THEN LET slot == events[i].timestamp
                    IN  Only({ IF f.ret = 1 THEN [f EXCEPT !.g[slot] = 0] ELSE idle(f)
                               : f \in {form_log(m, e, events[i].msg,
                                                 ULDivK(ULMinus(t, m.g[slot])))} })
               ELSE idle(m)
               : i \in {FirstPending(m.g)} })

\* the deferred logging and keep-alive branch, lines 221-236
Drain(m, e) ==
    LET t == e.the_time
    IN  Only({ IF i # 0
               THEN LET slot == events[i].timestamp
                    IN  Only({ IF f.ret = 1 THEN [f EXCEPT !.g[slot] = 0] ELSE f
                               : f \in {form_log(m, e, events[i].msg,
                                                 ULDivK(ULMinus(t, m.g[slot])))} })
               ELSE IF SslIdle(t, m.g.last_ssl_activity)
                    THEN keepSSLWarm(m, e)
                    ELSE porchLightHeartbeat(m, e, t)
               : i \in {FirstPending(m.g)} })

\* the statements of loop() in order, each on the machine m the one before left
LoopStep(i, m, e) ==
    LET t == e.the_time
    IN  CASE i = 1 -> wifi_check(m, e)
          [] i = 2 -> Only({ IF sensor # 0 THEN Sensed(m, e, sensor) ELSE m
                             : sensor \in {find_body(e.echo[1], e.echo[2])} })
          [] i = 3 -> IF m.g.pLight /\ LightExpired(t, m.g.body_time)
                      THEN [Note(m, "light off") EXCEPT !.g.pLight = FALSE,
                                                        !.g.logTimeOff = Stamp(t)]
                      ELSE m
          [] i = 4 -> Only({ IF PorchOffDue(t, y.g.porch_auto_off_time)
                             THEN porch_off(y, e) ELSE y
                             : y \in {[m EXCEPT !.saw.deadline = m.g.porch_auto_off_time]} })
          [] i = 5 -> IF QuietPeriod(t, m.g.low_detect_time, m.g.up_detect_time)
                      THEN Drain([m EXCEPT !.saw.quiet = TRUE,
                                           !.saw.pending = FirstPending(m.g)], e)
                      ELSE m
          [] i = 6 -> updateStatusLEDs(m, t)

LoopSteps == 6

RECURSIVE LoopFrom(_, _, _)
LoopFrom(i, m, e) ==
    IF i > LoopSteps THEN m
    ELSE Only({ LoopFrom(i + 1, n, e) : n \in {LoopStep(i, m, e)} })

loop(m0, e) == LoopFrom(1, m0, e)

\* setup(): WiFi.begin, then the boot message
setup(m0, e) ==
    Only({ form_log(b, e, "SYSTEM BOOT V3.0", 0) : b \in {WiFi_begin(m0, e)} })

\* ------------------------------------------------------------ the system

\* the number of loop() runs explored
MaxTicks == 3

\* time spent inside a run before its millis() reads, sampled
Lags == {0, 700}

\* pulseIn() widths of the lower and upper echo, sampled: none, lower,
\* upper, both (0 is a timeout, 5000 is beyond ping_range)
Echoes == {<<0, 5000>>, <<600, 0>>, <<5000, 600>>, <<600, 600>>}

\* the porch switch during one run: see KasaAccepts and RelayNotOn
Switch == {"down", "on", "off", "gone"}

\* time from the top of one loop() run to the top of the next, sampled; a
\* specification paces its runs by a few of them
StepsHold == {40000, 60000}

StepsTransit == {4000, 10000, 40000}

StepsAutoOff == {10000, 300000}

StepsWrap == {100, 10000}

\* a transit at walking pace, ten seconds from run to run
StepsLive == {10000}

\* a second upward transit, its upper detection 300000 ms after the first's
StepsReturn == {10000, 290000}

\* runs exactly on and just past the quiet period and the keep-alive interval
StepsQuiet == {3000, 25000, 25100}

\* clock values a long idle stretch is followed to: 310100 ms and 100 ms
\* before the 32-bit clock wraps to 0
IdleTargets == {-310100, -100}

\* 330000 ms before the wrap: a transit started then has its auto-off due
\* 10000 ms before the wrap
RetryTargets == {-330000}

DayMs == 1440 * 60000

\* 2^32 ms of clock, as time of day
WrapMs == ((2 ^ 30 % DayMs) * 4) % DayMs

VARIABLES
    pc,         \* "boot" before setup() has run, "run" after
    g,          \* the globals
    wl,         \* WiFi.status() == WL_CONNECTED
    the_time,   \* millis() at the top of the last loop() run
    busy,       \* time the last run spent before its delay(100)
    wallMs,     \* the NTP client's time of day at the_time, in ms
    epochTime,  \* timeClient.getEpochTime()
    ticks,      \* loop() runs so far
    ev,         \* what the last run of loop() saw and did
    hist,       \* history: true elapsed times, kept beside the 32-bit clock
    probe       \* a function applied on its own: its arguments and results

vars == <<pc, g, wl, the_time, busy, wallMs, epochTime, ticks, ev, hist, probe>>

NoProbe == [of |-> "none"]

NoRun == [the_time |-> 0, lag |-> 0, tick |-> 0, step |-> 0, sensor |-> 0, wasOn |-> FALSE,
          wasLinked |-> FALSE, dark |-> "unasked", deadline |-> 0, sw |-> "down",
          linked |-> FALSE, quiet |-> FALSE, pending |-> 0, stray |-> FALSE, tr |-> <<>>]

\* ------------------------------------------------------------- history
\* Elapsed times in ms as true integers (no wrap), -1 for "never", and what
\* the controller owes the porch switch.  Nothing in the program reads them.

\* a time so long ago that no interval of the sketch reaches it
Far == 2 ^ 30

History0 ==
    [ sinceDet |-> -1,     \* since a body was last detected at either sensor
      sinceBody |-> -1,    \* since a body was last detected while it was dark
      sinceLow |-> -1,     \* since a body was last detected at the lower sensor
      sinceOn |-> -1,      \* since the light was last switched on
      onBy |-> 0,          \* the sensor reading that switched the light on
      onQuiet |-> FALSE,   \* no detection since the light was last switched on
      onCmds |-> 0,        \* 'on' commands sent since the last lower detection
      owed |-> FALSE,      \* an 'on' command was sent and no 'off' since
      due |-> 0,           \* time left until the auto-off is due (when owed)
      dueAtCheck |-> 0,    \* the same, when the last run tested the deadline
      sinceBegin |-> -1,   \* since WiFi.begin was last called
      beginGap |-> -1,     \* when the last run called WiFi.begin: since the call before
      sinceKasaFail |-> -1, \* since a connection to the porch switch last failed
      kasaGap |-> -1,      \* when the last run connected to the switch: since that failure
      sinceSsl |-> 0,      \* since the top of the run that last set last_ssl_activity
      sslLag |-> 0,        \* how far into that run it was set
      sinceSun |-> -1 ]    \* since sunrise and sunset were last computed

Older(a, d) == IF a < 0 THEN a ELSE IF a >= Far - d THEN Far ELSE a + d

Sent(tr, msg) == Cardinality({i \in 1..Len(tr) : tr[i].op = "kasa" /\ tr[i].msg = msg})

\* the entries of tr after its first entry op
After(tr, op) ==
    LET at == CHOOSE i \in 1..Len(tr) : tr[i].op = op /\ \A j \in 1..(i-1) : tr[j].op # op
    IN  SubSeq(tr, at + 1, Len(tr))

\* the history after a run of loop() that began `step` after the last one and
\* left machine m under inputs e
Track(h, step, sensor, m, e) ==
    LET on == Tried(m.tr, {"light on"})
        begun == Tried(m.tr, {"WiFi.begin"})
        cmdOn == Sent(m.tr, set_relay_on)
        cmdOff == Sent(m.tr, set_relay_off)
        left == IF h.due - step < -Far THEN -Far ELSE h.due - step
        atCheck == IF cmdOn > 0 THEN porch_duration + e.lag ELSE left
        off == Tried(m.tr, {"porch_off"})
        touched == Tried(m.tr, {"keepSSLWarm", "GET"})
        retry == IF ~off \/ cmdOff > 0 THEN atCheck
                 ELSE IF Tried(After(m.tr, "porch_off"), {"connect kasa failed"})
                      THEN porch_retry_noconn + e.lag
                      ELSE porch_retry_nowifi + e.lag
    IN  [ sinceDet |-> IF sensor # 0 THEN 0 ELSE Older(h.sinceDet, step),
          sinceBody |-> IF m.saw.dark = "dark" THEN 0 ELSE Older(h.sinceBody, step),
          sinceLow |-> IF Bit1(sensor) THEN 0 ELSE Older(h.sinceLow, step),
          sinceOn |-> IF on THEN 0 ELSE Older(h.sinceOn, step),
          onBy |-> IF on THEN sensor ELSE IF m.g.pLight THEN h.onBy ELSE 0,
          onQuiet |-> IF on THEN TRUE ELSE h.onQuiet /\ sensor = 0,
          onCmds |-> (IF Bit1(sensor) THEN 0 ELSE h.onCmds) + cmdOn,
          owed |-> IF cmdOff > 0 THEN FALSE ELSE h.owed \/ cmdOn > 0,
          due |-> retry,
          dueAtCheck |-> atCheck,
          sinceBegin |-> IF begun THEN 0 ELSE Older(h.sinceBegin, step),
          beginGap |-> IF begun THEN Older(h.sinceBegin, step) ELSE -1,
          sinceKasaFail |-> IF Tried(m.tr, {"connect kasa failed"}) THEN 0
                            ELSE Older(h.sinceKasaFail, step),
          kasaGap |-> IF Tried(m.tr, {"connect kasa", "connect kasa failed"})
                      THEN Older(h.sinceKasaFail, step) ELSE -1,
          sinceSsl |-> IF touched THEN 0 ELSE Older(h.sinceSsl, step),
          sslLag |-> IF touched THEN e.lag ELSE h.sslLag,
          sinceSun |-> IF Tried(m.tr, {"Dusk2Dawn"}) THEN 0 ELSE Older(h.sinceSun, step) ]

\* the epoch and the time of day at power-up: 08:00:00 with no network time
\* yet (the night window ends a minute later), 06:00 with network time
Boots ==
    { [epochTime |-> 0,          wallMs |-> 480 * 60000],
      [epochTime |-> 1768723200, wallMs |-> 360 * 60000] }

Init ==
    /\ pc = "boot"
    /\ g = Globals0
    /\ wl = FALSE
    /\ the_time = 0
    /\ busy = 0
    /\ \E b \in Boots : epochTime = b.epochTime /\ wallMs = b.wallMs
    /\ ticks = 0
    /\ ev = NoRun
    /\ hist = History0
    /\ probe = NoProbe

Env(t, lag, echo, join, sw, ssl) ==
    [the_time |-> t, lag |-> lag, echo |-> echo, join |-> join, sw |-> sw,
     ssl |-> ssl, epochTime |-> epochTime,
     currentMin |-> wallMs \div 60000, tick |-> 0]

\* WiFi.begin returns at once when it fails to start and takes its time to join
BootLag(join) == IF join THEN 700 ELSE 0

Setup ==
    /\ pc = "boot"
    /\ \E join \in BOOLEAN :
         \E ssl \in IF join THEN BOOLEAN ELSE {FALSE} :
           LET r == setup(Machine(g, wl), Env(0, BootLag(join), <<0, 0>>, join, "down", ssl))
           IN  /\ g' = r.g
               /\ wl' = r.wl
               /\ busy' = BootLag(join)
               /\ hist' = [hist EXCEPT
                             !.sinceBegin = 0,
                             !.sslLag = IF Tried(r.tr, {"GET"}) THEN BootLag(join) ELSE 0]
    /\ pc' = "run"
    /\ UNCHANGED <<the_time, wallMs, epochTime, ticks, ev, probe>>

\* The runs of loop() from machine m under every input the run reads, as
\* pairs [m, e] of the machine it leaves and the inputs it had.  e comes with
\* the inputs at rest (no join, switch down, no TLS, no lag); an input is
\* varied only when the run reads it: the outcome of WiFi.begin, the switch's
\* behaviour and the time spent talking to it, the outcome of connectSSL.
SslRuns(m, e, p) ==
    IF Tried(p.tr, {"connect ssl", "connect ssl failed"})
    THEN {[m |-> p, e |-> e]}
         \cup { [m |-> loop(m, e1), e |-> e1] : e1 \in {[e EXCEPT !.ssl = TRUE]} }
    ELSE {[m |-> p, e |-> e]}

KasaRuns(m, e, p) ==
    IF Tried(p.tr, {"connect kasa", "connect kasa failed"})
    THEN UNION { UNION { SslRuns(m, e2, p2)
                         : p2 \in {IF e2.sw = "down" /\ e2.lag = 0 THEN p ELSE loop(m, e2)} }
                 : e2 \in {[e EXCEPT !.sw = x[1], !.lag = x[2]] : x \in Switch \X Lags} }
    ELSE SslRuns(m, e, p)

Runs(m, e) ==
    UNION { IF Tried(p.tr, {"WiFi.begin"})
            THEN KasaRuns(m, e, p)
                 \cup UNION { UNION { KasaRuns(m, e1, p1) : p1 \in {loop(m, e1)} }
                              : e1 \in {[e EXCEPT !.join = TRUE]} }
            ELSE KasaRuns(m, e, p)
            : p \in {loop(m, e)} }

\* what run r of loop() at time t saw and did
Seen(t, step, echo, r) ==
    [the_time |-> t, lag |-> r.e.lag, tick |-> r.e.tick, step |-> step,
     sensor |-> find_body(echo[1], echo[2]), wasOn |-> g.pLight, wasLinked |-> wl,
     dark |-> r.m.saw.dark, deadline |-> r.m.saw.deadline, sw |-> r.e.sw,
     linked |-> r.m.wl, quiet |-> r.m.saw.quiet, pending |-> r.m.saw.pending,
     stray |-> r.m.saw.stray,
     tr |-> r.m.tr]

\* the runs of Runs(m, e), and when `racing` also those in which the
\* millisecond counter advances between the two millis() calls of a stamp,
\* where that makes a difference
RunsTicking(m, e, racing) ==
    IF ~racing THEN Runs(m, e)
    ELSE UNION { R0 \cup { r1 \in Runs(m, [e EXCEPT !.tick = 1]) :
                            \A r0 \in R0 : r0.m # r1.m }
                 : R0 \in {Runs(m, e)} }

\* one run of loop(), `step` after the last one, of at most `runs` runs
LoopTicking(steps, runs, racing) ==
    /\ pc = "run"
    /\ ticks < runs
    /\ \E step \in steps, echo \in Echoes :
         /\ step >= busy + TickDelay
         /\ LET t == ULPlus(the_time, step)
                wall == (wallMs + step) % DayMs
                e0 == [Env(t, 0, echo, FALSE, "down", FALSE)
                         EXCEPT !.currentMin = wall \div 60000]
            IN  \E r \in UNION { RunsTicking(m, e, racing) : m \in {Machine(g, wl)}, e \in {e0} } :
                  /\ g' = r.m.g
                  /\ wl' = r.m.wl
                  /\ the_time' = t
                  /\ busy' = r.e.lag
                  /\ wallMs' = wall
                  /\ ev' = Seen(t, step, echo, r)
                  /\ hist' = Track(hist, step, find_body(echo[1], echo[2]), r.m, r.e)
    /\ ticks' = ticks + 1
    /\ UNCHANGED <<pc, epochTime, probe>>

LoopAt(steps) == LoopTicking(steps, MaxTicks, FALSE)

\* the access point or the signal is lost: open sockets die with it
LinkLoss ==
    /\ pc = "run"
    /\ wl
    /\ wl' = FALSE
    /\ g' = [g EXCEPT !.client = "closed"]
    /\ UNCHANGED <<pc, the_time, busy, wallMs, epochTime, ticks, ev, hist, probe>>

\* A long stretch of loop() runs in which nothing is sensed, nothing is pending
\* and the light is off, up to its last run, at clock value `target`.  Such
\* runs only check the Wi-Fi, keep the TLS session warm every 25 s and query
\* the switch every 30 min.  The stretch is entered before its last two runs:
\* the one before the last was a heartbeat (which leaves the client closed),
\* the last one is a keep-alive.  The clock wraps during the stretch, which
\* moves the time of day by `drift`.
IdleWith(targets, drift) ==
    /\ pc = "run"
    /\ the_time >= 0
    /\ ~g.pLight
    /\ g.porch_auto_off_time = 0
    /\ FirstPending(g) = 0
    /\ \E target \in targets :
         LET pre == [g EXCEPT
                       !.was_connected = wl,
                       !.last_wifi_try = IF wl THEN @ ELSE ULMinus(target, TickDelay),
                       !.last_ssl_activity =
                           ULMinus(target, ssl_keepalive_interval + TickDelay),
                       !.lastHeartbeat = ULMinus(target, TickDelay),
                       !.client = "closed"]
             wall == (wallMs + drift + ((target - the_time) % DayMs)) % DayMs
             e0 == [Env(target, 0, <<0, 0>>, FALSE, "down", FALSE)
                      EXCEPT !.currentMin = wall \div 60000]
             old == [hist EXCEPT !.sinceDet = Older(@, Far), !.sinceBody = Older(@, Far),
                                 !.sinceLow = Older(@, Far), !.sinceOn = Older(@, Far),
                                 !.due = -Far,
                                 !.sinceBegin = IF wl THEN Older(@, Far) ELSE 0,
                                 !.sinceKasaFail = Older(@, Far),
                                 !.sinceSsl = ssl_keepalive_interval, !.sslLag = 0,
                                 !.sinceSun = Older(@, Far)]
         IN  \E r \in UNION { Runs(m, e) : m \in {Machine(pre, wl)}, e \in {e0} } :
               /\ g' = r.m.g
               /\ wl' = r.m.wl
               /\ the_time' = target
               /\ busy' = r.e.lag
               /\ wallMs' = wall
               /\ ev' = Seen(target, TickDelay, <<0, 0>>, r)
               /\ hist' = Track(old, TickDelay, 0, r.m, r.e)
    /\ UNCHANGED <<pc, epochTime, ticks, probe>>

\* the stretch ends with the next wrap of the clock
IdleTo(targets) == IdleWith(targets, WrapMs)

Idle == IdleTo(IdleTargets)

\* the stretch lasts as many wraps of the clock as make whole days
Rest == IdleWith(RetryTargets, 0)

\* the time to the next run once MaxTicks runs have been explored: to the run
\* at which a pending auto-off is due, and a minute otherwise
LaterStep ==
    IF g.porch_auto_off_time # 0
          /\ ~LongNonNeg(ULMinus(ULPlus(the_time, busy + TickDelay), g.porch_auto_off_time))
    THEN ULMinus(g.porch_auto_off_time, the_time)
    ELSE light_length

\* a run of loop() after the explored ones, while something is outstanding
\* (the light on, an event to log, an auto-off pending, the clock short of
\* its wrap): nothing is sensed, and the Wi-Fi, the switch and the log server
\* are reachable
Later ==
    /\ pc = "run"
    /\ ticks >= MaxTicks
    /\ \/ g.porch_auto_off_time # 0
       \/ g.pLight
       \/ FirstPending(g) # 0
       \/ the_time < 0
    /\ LET step == LaterStep
           t == ULPlus(the_time, step)
           wall == (wallMs + step) % DayMs
           e == [Env(t, 0, <<0, 0>>, TRUE, "off", TRUE)
                   EXCEPT !.currentMin = wall \div 60000]
       IN  \E r \in { [m |-> loop(m, e), e |-> e] : m \in {Machine(g, wl)} } :
             /\ g' = r.m.g
             /\ wl' = r.m.wl
             /\ the_time' = t
             /\ busy' = 0
             /\ wallMs' = wall
             /\ ev' = Seen(t, step, <<0, 0>>, r)
             /\ hist' = Track(hist, step, 0, r.m, r.e)
    /\ UNCHANGED <<pc, epochTime, ticks, probe>>

NextHold == Setup \/ LoopAt(StepsHold) \/ LinkLoss

NextTransit == Setup \/ LoopAt(StepsTransit) \/ LinkLoss

NextAutoOff == Setup \/ LoopAt(StepsAutoOff) \/ LinkLoss

SpecHold == Init /\ [][NextHold]_vars

SpecTransit == Init /\ [][NextTransit]_vars

SpecAutoOff == Init /\ [][NextAutoOff]_vars

\* the log drain and the idle actions; the Wi-Fi, once joined, stays
NextQuiet == Setup \/ LoopAt(StepsQuiet)

SpecQuiet == Init /\ [][NextQuiet]_vars

\* two transits take four runs; the Wi-Fi, once joined, stays
NextReturn == Setup \/ LoopTicking(StepsReturn, MaxTicks + 1, FALSE)

SpecReturn == Init /\ [][NextReturn]_vars

\* the auto-off and its retries, begun shortly before the clock wraps
NextRetry == Setup \/ LoopAt(StepsAutoOff) \/ LinkLoss \/ IdleTo(RetryTargets)

SpecRetry == Init /\ [][NextRetry]_vars

\* the controller run on for ever: loop() keeps being called, and the
\* Wi-Fi, once joined, stays
RunLive == LoopAt(StepsLive) \/ Later \/ Rest

NextLive == Setup \/ RunLive

SpecLive == Init /\ [][NextLive]_vars /\ WF_vars(RunLive)

\* A long stretch of loop() runs with the access point gone, in which nothing
\* is sensed, the light is off and an event waits to be logged, up to its last
\* run at clock value `target`.  Every run of the stretch finds the Wi-Fi down:
\* WiFi.begin is retried in vain every minute (last in the run before the last
\* one) and form_log gives up at once, so that what is pending stays pending
\* and neither the keep-alive nor the heartbeat is reached.  The stretch lasts
\* as many wraps of the clock as make whole days.
Outage ==
    /\ pc = "run"
    /\ ticks >= MaxTicks
    /\ the_time >= 0
    /\ ~g.pLight
    /\ g.porch_auto_off_time = 0
    /\ FirstPending(g) # 0
    /\ \E target \in RetryTargets :
         LET pre == [g EXCEPT !.was_connected = FALSE,
                              !.last_wifi_try = ULMinus(target, TickDelay),
                              !.client = "closed"]
             wall == (wallMs + ((target - the_time) % DayMs)) % DayMs
             e0 == [Env(target, 0, <<0, 0>>, FALSE, "down", FALSE)
                      EXCEPT !.currentMin = wall \div 60000]
             old == [hist EXCEPT !.sinceDet = Older(@, Far), !.sinceBody = Older(@, Far),
                                 !.sinceLow = Older(@, Far), !.sinceOn = Older(@, Far),
                                 !.due = -Far,
                                 !.sinceBegin = 0,
                                 !.sinceKasaFail = Older(@, Far),
                                 !.sinceSsl = Older(@, Far),
                                 !.sinceSun = Older(@, Far)]
         IN  \E r \in { [m |-> loop(m, e), e |-> e] : m \in {Machine(pre, FALSE)}, e \in {e0} } :
               /\ g' = r.m.g
               /\ wl' = r.m.wl
               /\ the_time' = target
               /\ busy' = 0
               /\ wallMs' = wall
               /\ ev' = Seen(target, TickDelay, <<0, 0>>, r)
               /\ hist' = Track(old, TickDelay, 0, r.m, r.e)
    /\ UNCHANGED <<pc, epochTime, ticks, probe>>

\* loop() is called again and again; after the explored runs the quiet runs
\* with the network reachable keep coming, between outages of any length
RunDrain == LoopAt(StepsLive) \/ Later

NextDrain == Setup \/ RunDrain \/ Outage

SpecDrain == Init /\ [][NextDrain]_vars /\ WF_vars(RunDrain)

NextWrap == Setup \/ LoopAt(StepsWrap) \/ LinkLoss \/ Idle

SpecWrap == Init /\ [][NextWrap]_vars

\* the explored runs begin 20 s before the clock wraps, every stamp made with
\* the counter advancing between its two reads or not; then the runs go on
\* until nothing is outstanding
RaceTargets == {-30001}

StepsRace == {10000}

RunRace == LoopTicking(StepsRace, MaxTicks, TRUE) \/ Later

NextRace == Setup \/ (ticks = 0 /\ IdleTo(RaceTargets)) \/ RunRace

SpecRace == Init /\ [][NextRace]_vars /\ WF_vars(RunRace)

\* ------------------------------------------------- the clock comparisons
\* The elapsed-time tests of loop() and its helpers applied on their own: a
\* timestamp `stamp` is stored, `elapsed` ms of true time pass, and each test
\* is made at clock value stamp + elapsed modulo 2^32.

\* stored clock values, on both sides of the wrap
Stamps == {-1800001, -300700, -300000, -60000, -3000, -1, 0, 1, 5000}

\* true elapsed times: around every threshold, and up to 2^31 - 1
Elapsed ==
    {0, 1, 2999, 3000, 3001, 3999, 4000, 4001, 24999, 25000, 25001,
     39999, 40000, 40001, 59999, 60000, 60001, 299999, 300000, 300001,
     1799999, 1800000, 1800001, 2147483647}

InitClock ==
    /\ pc = "clock"
    /\ g = Globals0
    /\ wl = FALSE
    /\ the_time = 0
    /\ busy = 0
    /\ epochTime = 0
    /\ wallMs = 0
    /\ ticks = 0
    /\ ev = NoRun
    /\ hist = History0
    /\ probe = NoProbe

\* every test at `elapsed` after `stamp`; the auto-off deadline is the one
\* porch_on() stores at `stamp`
Compare ==
    /\ pc = "clock"
    /\ \E stamp \in Stamps, elapsed \in Elapsed :
         LET now == ULPlus(stamp, elapsed)
         IN  probe' =
               [ of |-> "clock", stamp |-> stamp, elapsed |-> elapsed,
                 LightExpired |-> LightExpired(now, stamp),
                 WalkingUp |-> WalkingUp(2, now, stamp),
                 PorchOffDue |-> PorchOffDue(now, ULPlus(stamp, porch_duration)),
                 QuietPeriod |-> QuietPeriod(now, stamp, stamp),
                 SslIdle |-> SslIdle(now, stamp),
                 HeartbeatDue |-> HeartbeatDue(now, stamp),
                 WifiRetryDue |-> WifiRetryDue(now, stamp) ]
    /\ UNCHANGED <<pc, g, wl, the_time, busy, wallMs, epochTime, ticks, ev, hist>>

SpecClock == InitClock /\ [][Compare]_vars

\* ------------------------------------------------------- the day/night gate
\* isItDark() called on its own, for an epoch, a minute of the day, a clock
\* value and a state of the solar cache.

\* epochs: none, either side of the floor, a day in January 2026, the last
\* second of 2^31, and 28800 s short of 2^32
Epochs == {0, 1735689599, 1735689600, 1768723200, 2147483647, -28800}

\* minutes of the day: the ends of the day, and either side of the fixed
\* window, of the computed sunrise and sunset and of both with the margin
Minutes ==
    {0, 1, 384, 385, 386, 441, 442, 443, 456, 457, 458, 479, 480, 481, 720,
     1019, 1020, 1021, 1022, 1023, 1024, 1037, 1038, 1039, 1084, 1085, 1086, 1439}

\* the solar cache as it is after static initialisation, and as an earlier
\* call left it at clock value 5000
Caches ==
    { [cachedSunrise |-> 0, cachedSunset |-> 0, lastSunUpdate |-> -3600001],
      [cachedSunrise |-> 370, cachedSunset |-> 1100, lastSunUpdate |-> 5000] }

\* clock values: within the hour after the cache was filled, at its end and
\* past it
Clocks == {5000, 3605000, 3605001}

InitDark ==
    /\ pc = "dark"
    /\ g = Globals0
    /\ wl = FALSE
    /\ the_time = 0
    /\ busy = 0
    /\ epochTime = 0
    /\ wallMs = 0
    /\ ticks = 0
    /\ ev = NoRun
    /\ hist = History0
    /\ probe \in { [of |-> "ask", epochTime |-> ep, currentMin |-> mn, the_time |-> t,
                     cache |-> c] :
                    ep \in Epochs, mn \in Minutes, t \in Clocks, c \in Caches }

\* one call isItDark(): its answer, what it did, and the cache it leaves
Ask ==
    /\ pc = "dark"
    /\ probe.of = "ask"
    /\ LET e == [the_time |-> probe.the_time, lag |-> 0, echo |-> <<0, 0>>,
                 join |-> FALSE, sw |-> "down", ssl |-> FALSE,
                 epochTime |-> probe.epochTime, currentMin |-> probe.currentMin]
           m == Machine([g EXCEPT !.cachedSunrise = probe.cache.cachedSunrise,
                                  !.cachedSunset = probe.cache.cachedSunset,
                                  !.lastSunUpdate = probe.cache.lastSunUpdate], wl)
       IN  probe' = Only({ [ of |-> "dark", epochTime |-> probe.epochTime,
                             currentMin |-> probe.currentMin, the_time |-> probe.the_time,
                             cache |-> probe.cache, ret |-> r.ret, tr |-> r.tr,
                             cachedSunrise |-> r.g.cachedSunrise,
                             cachedSunset |-> r.g.cachedSunset,
                             lastSunUpdate |-> r.g.lastSunUpdate ] :
                           r \in {isItDark(m, e)} })
    /\ UNCHANGED <<pc, g, wl, the_time, busy, wallMs, epochTime, ticks, ev, hist>>

SpecDark == InitDark /\ [][Ask]_vars

\* ------------------------------------------------- the bytes on the wire
\* sendKasaCommand() byte by byte.  A C string is a sequence of non-zero
\* chars; client.write(int) sends the low eight bits of its argument.

\* a ^ b on non-negative integers
RECURSIVE BitXor(_, _)
BitXor(a, b) ==
    IF a = 0 THEN b
    ELSE IF b = 0 THEN a
    ELSE ((a + b) % 2) + 2 * BitXor(a \div 2, b \div 2)

highByte(w) == (w \div 256) % 256

lowByte(w) == w % 256

strlen(msg) == Len(msg)

KasaSeed == 171

\* the key is never replaced: every char is XORed with the seed
KasaLoopFixedKey(key, msg, from, to) ==
    [i \in 1..(to - from + 1) |-> lowByte(BitXor(key, msg[from + i - 1]))]

\* for (i = 0; msg[i] != 0; i++) client.write(key ^= msg[i]): the bytes
\* written by the iterations from..to of the loop when it enters them with
\* `key`; a longer stretch is its first half followed by its second half,
\* entered with the key the first half leaves, its last byte
RECURSIVE KasaLoop(_, _, _, _)
KasaLoop(key, msg, from, to) ==
    IF from > to THEN <<>>
    ELSE IF from = to THEN <<lowByte(BitXor(key, msg[from]))>>
    ELSE Only({ first \o KasaLoop(first[Len(first)], msg, from + Len(first), to) :
                first \in {KasaLoop(key, msg, from, (from + to) \div 2)} })

\* the length written low byte first
KasaBytesLittleEndian(msg) ==
    <<0, 0, lowByte(strlen(msg)), highByte(strlen(msg))>> \o KasaLoop(KasaSeed, msg, 1, strlen(msg))

\* everything one call of sendKasaCommand(msg) writes to the client
KasaBytes(msg) ==
    <<0, 0, highByte(strlen(msg)), lowByte(strlen(msg))>> \o KasaLoop(KasaSeed, msg, 1, strlen(msg))

\* the chars of the three commands the sketch sends
Chars(msg) ==
    CASE msg = get_sysinfo ->
           << 123, 34, 115, 121, 115, 116, 101, 109, 34, 58, 123, 34, 103, 101,
              116, 95, 115, 121, 115, 105, 110, 102, 111, 34, 58, 123, 125, 125,
              125 >>
      [] msg = set_relay_on ->
           << 123, 34, 115, 121, 115, 116, 101, 109, 34, 58, 123, 34, 115, 101,
              116, 95, 114, 101, 108, 97, 121, 95, 115, 116, 97, 116, 101, 34,
              58, 123, 34, 115, 116, 97, 116, 101, 34, 58, 49, 125, 125, 125 >>
      [] msg = set_relay_off ->
           << 123, 34, 115, 121, 115, 116, 101, 109, 34, 58, 123, 34, 115, 101,
              116, 95, 114, 101, 108, 97, 121, 95, 115, 116, 97, 116, 101, 34,
              58, 123, 34, 115, 116, 97, 116, 101, 34, 58, 48, 125, 125, 125 >>

\* chars the short strings are made of: low, '"', '{', the seed, the top bit
SomeChars == {1, 34, 123, 171, 255}

MaxStr == 3

Repeat(c, n) == [i \in 1..n |-> c]

\* the strings sent: the three commands, every string of at most MaxStr of
\* SomeChars, and strings long enough to use the high byte of the length
Strings ==
    {Chars(get_sysinfo), Chars(set_relay_on), Chars(set_relay_off)}
    \cup UNION { [1..n -> SomeChars] : n \in 0..MaxStr }
    \cup { Repeat(c, n) : c \in {34, 171}, n \in {255, 256, 300, 515} }

\* a string is handed to sendKasaCommand
InitKasa ==
    /\ pc = "kasa"
    /\ g = Globals0
    /\ wl = FALSE
    /\ the_time = 0
    /\ busy = 0
    /\ epochTime = 0
    /\ wallMs = 0
    /\ ticks = 0
    /\ ev = NoRun
    /\ hist = History0
    /\ probe \in { [of |-> "string", msg |-> msg] : msg \in Strings }

\* one call sendKasaCommand(msg); `again` is what the same loop, seeded
\* anew, makes of the obfuscated bytes
Send ==
    /\ pc = "kasa"
    /\ probe.of = "string"
    /\ probe' = Only({ [ of |-> "kasa", msg |-> probe.msg, sent |-> sent,
                         again |-> KasaLoop(KasaSeed, sent, 5, Len(sent)) ] :
                       sent \in {KasaBytes(probe.msg)} })
    /\ UNCHANGED <<pc, g, wl, the_time, busy, wallMs, epochTime, ticks, ev, hist>>

SpecKasa == InitKasa /\ [][Send]_vars

\* ------------------------------------------------------------ properties
\* State predicates over the last run of loop() (ev), the history (hist)
\* and the globals.

C2_OncePerPairInclusive ==
    ( /\ ev.wasOn /\ Bit2(ev.sensor) /\ ev.dark = "dark"
      /\ hist.onBy = 1 /\ hist.sinceLow >= 0 /\ hist.sinceLow < Far )
    => Count(ev.tr, "porch_on") =
         IF hist.sinceLow >= 4000 /\ hist.sinceLow <= 40000 THEN 1 ELSE 0

\* C2 amended: with the light on, an upper detection in the dark with gap g
\* after the last lower detection invokes porch_on exactly once if
\* 4000 < g < 40000 and not at all otherwise (both ends excluded).
C2_OncePerPairExclusive ==
    ( /\ ev.wasOn /\ Bit2(ev.sensor) /\ ev.dark = "dark"
      /\ hist.sinceLow >= 0 /\ hist.sinceLow < Far )
    => Count(ev.tr, "porch_on") =
         IF hist.sinceLow > 4000 /\ hist.sinceLow < 40000 THEN 1 ELSE 0

\* lower detection switched the light on, upper detection 10000 ms later:
\* one porch_on invocation
C2_UpperAfterTenSeconds ==
    /\ ev.wasOn /\ ev.sensor = 2 /\ ev.dark = "dark"
    /\ hist.onBy = 1 /\ hist.sinceLow = 10000
    /\ Count(ev.tr, "porch_on") = 1

\* C3: at most one set_relay_state 'on' command is sent per upward transit,
\* that is, between one lower detection and the next, whatever the switch
\* answers to the state query.
C3_OneOnCommandPerTransit ==
    hist.sinceLow >= 0 => hist.onCmds <= 1

\* C4: porch_on is invoked only when the upper sensor detects while the light
\* is already on and the on-period was started by the lower sensor alone.
C4_OnlyWhenStartedByLower ==
    Tried(ev.tr, {"porch_on"}) =>
        (ev.wasOn /\ Bit2(ev.sensor) /\ hist.onBy = 1)

\* C5: the stairway light is never switched off in a tick when a body was
\* detected at either sensor less than light_length ago, whatever isItDark()
\* answered at that detection.
C5_NotOffWhileDetected ==
    Tried(ev.tr, {"light off"}) => hist.sinceDet >= light_length

\* C6: when nothing has been detected since the light was switched on at t0,
\* the light is on at every tick with now - t0 < 60000 and off at every tick
\* from 60000 on; it is switched off in the first tick with
\* now - t0 >= 60000, and that tick stamps the 'Stair light OFF' slot (or has
\* already handed the event to form_log).
C6_OffAtFirstTickAfterHold ==
    hist.onQuiet =>
        /\ g.pLight <=> (hist.sinceOn < 60000)
        /\ Tried(ev.tr, {"light off"}) <=>
               (hist.sinceOn >= 60000 /\ hist.sinceOn - ev.step < 60000)
        /\ Tried(ev.tr, {"light off"}) =>
               \/ g.logTimeOff # 0
               \/ \E i \in 1..Len(ev.tr) :
                      ev.tr[i].op = "GET" /\ ev.tr[i].msg = "Stair light OFF"

\* a tick exactly 60000 ms after the light was switched on, nothing detected
\* since: the light goes off and the slot is stamped
C6_OffAtSixtySeconds ==
    /\ hist.onQuiet /\ hist.sinceOn = 60000
    /\ Tried(ev.tr, {"light off"}) /\ ~g.pLight /\ g.logTimeOff = ev.the_time

\* C7 as stated: the light goes from off to on in a tick if and only if a
\* sensor detects a body and isItDark() is true; the transition stamps the
\* 'Stair light ON' slot with the tick time; the light is never switched on in
\* a tick where isItDark() is false.
C7_OnIffDarkStampedTickTime ==
    /\ ~ev.wasOn => (g.pLight <=> (ev.sensor # 0 /\ ev.dark = "dark"))
    /\ Tried(ev.tr, {"light on"}) => g.logTimeOn = ev.the_time
    /\ ev.dark # "dark" => ~Tried(ev.tr, {"light on"})

\* C7 amended: the same, the slot being stamped with the tick time, or with
\* 1 when the tick time is 0 (0 marks an empty slot).
C7_OnIffDarkStampedNonZero ==
    /\ ~ev.wasOn => (g.pLight <=> (ev.sensor # 0 /\ ev.dark = "dark"))
    /\ Tried(ev.tr, {"light on"}) =>
           g.logTimeOn = IF ev.the_time # 0 THEN ev.the_time ELSE 1
    /\ ev.dark # "dark" => ~Tried(ev.tr, {"light on"})

\* the light is switched on in the tick at which the clock has wrapped to 0
C7_OnAtClockZero ==
    Tried(ev.tr, {"light on"}) /\ ev.the_time = 0 /\ g.logTimeOn = 1

\* C8: porch_off is invoked in a tick if and only if the auto-off deadline is
\* set (non-zero) when the tick tests it and the true time left until the
\* deadline is zero or less.
C8_OffIffDue ==
    Tried(ev.tr, {"porch_off"}) <=> (ev.deadline # 0 /\ hist.dueAtCheck <= 0)

\* a tick that falls exactly on the deadline sends the 'off' command
C8_OffOnTheDeadline ==
    /\ Tried(ev.tr, {"porch_off"}) /\ hist.dueAtCheck = 0
    /\ Sent(ev.tr, set_relay_off) = 1

\* C9: the auto-off deadline is set (non-zero) if and only if an 'on' command
\* has been sent and no 'off' command has been sent since.
C9_DeadlineIffOnOwed ==
    (g.porch_auto_off_time # 0) <=> hist.owed

\* C10: no run of loop() sends set_relay_state with state 0.
C10_NeverOffCommand ==
    Sent(ev.tr, set_relay_off) = 0

\* C11: a run of loop() calls WiFi.begin at most once, only when the Wi-Fi
\* was not connected at its start, and never less than wifi_try_time
\* (60000 ms) after the call before, the one made by setup() included.
C11_BeginsSixtySecondsApart ==
    /\ Count(ev.tr, "WiFi.begin") <= 1
    /\ Tried(ev.tr, {"WiFi.begin"}) =>
           (~ev.wasLinked /\ hist.beginGap >= 60000)
    /\ ev.wasLinked => ~Tried(ev.tr, {"WiFi.begin"})

\* the Wi-Fi is still down 60000 ms after the last call: the run calls again
C11_RetryAfterSixtySeconds ==
    Tried(ev.tr, {"WiFi.begin"}) /\ hist.beginGap = 60000 /\ ~wl

\* C12: after a connection to the porch switch has failed, no run of loop()
\* tries to connect to the switch again before connect_try_time has passed.
C12_NoConnectDuringCooldown ==
    hist.kasaGap >= 0 => hist.kasaGap >= connect_try_time

\* C13: every elapsed-time test of the loop gives, at clock value
\* stamp + elapsed modulo 2^32, the outcome an unbounded clock gives for
\* the true elapsed time, for elapsed times below 2^31 ms.
C13_TestsAgreeWithTrueTime ==
    probe.of = "clock" =>
        /\ probe.LightExpired <=> (probe.elapsed >= 60000)
        /\ probe.WalkingUp <=> (probe.elapsed > 4000 /\ probe.elapsed < 40000)
        /\ probe.PorchOffDue <=> (probe.elapsed >= 300000)
        /\ probe.QuietPeriod <=> (probe.elapsed > 3000)
        /\ probe.SslIdle <=> (probe.elapsed > 25000)
        /\ probe.HeartbeatDue <=> (probe.elapsed > 1800000)
        /\ probe.WifiRetryDue <=> (probe.elapsed >= 60000)

\* C14: obfuscating the obfuscated bytes once more, with the same seed,
\* gives back the string that was sent.
C14_TwiceIsIdentity ==
    probe.of = "kasa" => probe.again = probe.msg

\* C14, amended: the string is recovered by XORing every obfuscated byte with
\* the obfuscated byte before it (the seed for the first); obfuscating a
\* second time gives the string back only when it has at most one char.
C14_UndoneByPreviousByte ==
    probe.of = "kasa" =>
        /\ Len(probe.sent) = 4 + Len(probe.msg)
        /\ \A i \in 1..Len(probe.msg) :
             BitXor(probe.sent[4 + i],
                    IF i = 1 THEN KasaSeed ELSE probe.sent[3 + i]) = probe.msg[i]
        /\ (probe.again = probe.msg) <=> (Len(probe.msg) <= 1)

\* a command of the sketch has been sent, and a second pass garbles it
C14_CommandGarbledByTwice ==
    /\ probe.of = "kasa"
    /\ probe.msg = Chars(set_relay_on)
    /\ probe.again # probe.msg

\* C15: sendKasaCommand(msg) writes exactly 4 + len(msg) bytes: 0, 0, the
\* high and the low byte of len(msg), then for every char the XOR of the
\* char with the byte written before it, 0xAB standing in before the first.
C15_HeaderThenRollingXor ==
    probe.of = "kasa" =>
        /\ Len(probe.sent) = 4 + Len(probe.msg)
        /\ probe.sent[1] = 0
        /\ probe.sent[2] = 0
        /\ 256 * probe.sent[3] + probe.sent[4] = Len(probe.msg)
        /\ \A i \in 1..Len(probe.sent) : probe.sent[i] \in 0..255
        /\ \A i \in 1..Len(probe.msg) :
             probe.sent[4 + i] =
                 BitXor(IF i = 1 THEN 171 ELSE probe.sent[3 + i], probe.msg[i])

\* a string of 300 chars has been sent: its length needs both bytes
C15_LongStringSent ==
    /\ probe.of = "kasa"
    /\ Len(probe.msg) = 300
    /\ probe.sent[3] = 1
    /\ probe.sent[4] = 44

\* the place of a step in the order sense, daylight, light and porch state,
\* switch action, log or keep-alive
Rank(op) ==
    CASE op = "wifi_check" -> 0
      [] op = "isItDark" -> 2
      [] op \in {"light on", "light off"} -> 3
      [] op \in {"porch_on", "porch_off"} -> 4
      [] op \in {"form_log", "keepSSLWarm", "porchLightHeartbeat"} -> 5
      [] OTHER -> -1

\* C16: a run of loop() calls porch_on or porch_off but never both, then at
\* most one of form_log (a log slot drained), keepSSLWarm and
\* porchLightHeartbeat, and its steps come in the order sense, daylight,
\* light and porch state, switch action, log or keep-alive.
C16_OneSwitchActionThenOneLogAction ==
    /\ ~(Tried(ev.tr, {"porch_on"}) /\ Tried(ev.tr, {"porch_off"}))
    /\ Count(ev.tr, "form_log") + Count(ev.tr, "keepSSLWarm")
         + Count(ev.tr, "porchLightHeartbeat") <= 1
    /\ \A i, j \in 1..Len(ev.tr) :
         (i < j /\ Rank(ev.tr[i].op) >= 0 /\ Rank(ev.tr[j].op) >= 0)
             => Rank(ev.tr[i].op) <= Rank(ev.tr[j].op)

\* ------------------------------------------------- the watchdog's budget
\* wdt_enable(WDT_PERIOD_8KCLK_gc): 8192 cycles of the 1.024 kHz clock, in ms
WatchdogPeriod == 8000

\* the two pulseIn(.., HIGH, 25000) of find_body, in ms
PulseWaits == 50

\* a call that waits with no deadline set by the sketch
NoDeadline == -1

\* the function run i of trace tr belongs to
Caller(tr, i) ==
    LET calls == {j \in 1..i : tr[j].op \in {"porch_on", "porch_off", "porchLightHeartbeat",
                                             "keepSSLWarm", "form_log", "wifi_check"}}
    IN  IF calls = {} THEN "setup"
        ELSE tr[CHOOSE j \in calls : \A k \in calls : k <= j].op

\* the deadline in ms the sketch sets for the wait of entry i of a trace:
\* client.setTimeout before a connect, the bound of a read loop; 0 for an
\* entry that does not wait
Deadline(tr, i) ==
    CASE tr[i].op = "WiFi.begin" -> NoDeadline
      [] tr[i].op \in {"connect kasa", "connect kasa failed"} ->
           IF Caller(tr, i) = "porchLightHeartbeat" THEN 1000 ELSE 1500
      [] tr[i].op = "kasa" ->
           IF Caller(tr, i) = "porch_on" /\ tr[i].msg = get_sysinfo THEN 800 ELSE 0
      [] tr[i].op \in {"connect ssl", "connect ssl failed"} -> 2000
      [] tr[i].op = "GET" -> 500
      [] OTHER -> 0

\* wdt_reset() is called at the top of loop() (entry 0), before every
\* connectSSL and before every request
Resets(tr) ==
    {0} \cup {i \in 1..Len(tr) : tr[i].op \in {"connect ssl", "connect ssl failed", "GET"}}

RECURSIVE SumWaits(_, _, _)
SumWaits(tr, from, to) ==
    IF from > to THEN 0
    ELSE (IF Deadline(tr, from) = NoDeadline THEN 0 ELSE Deadline(tr, from))
         + SumWaits(tr, from + 1, to)

\* the longest the run can take from reset r to the next one, every wait
\* that has a deadline lasting up to it; the last stretch ends with
\* delay(100) and the top of the next run
Stretch(tr, r) ==
    LET later == {i \in Resets(tr) : i > r}
        next == IF later = {} THEN Len(tr) + 1
                ELSE CHOOSE i \in later : \A k \in later : i <= k
    IN  SumWaits(tr, IF r = 0 THEN 1 ELSE r, next - 1)
        + (IF r = 0 THEN PulseWaits ELSE 0)
        + (IF later = {} THEN TickDelay ELSE 0)

\* C17: every wait of a run of loop() has a deadline, and between two
\* watchdog resets the waits add up to less than the watchdog period.
C17_WaitsBoundedBelowWatchdog ==
    /\ \A i \in 1..Len(ev.tr) : Deadline(ev.tr, i) # NoDeadline
    /\ \A r \in Resets(ev.tr) : Stretch(ev.tr, r) < WatchdogPeriod

\* the place in trace tr of the first command msg, 0 when there is none
FirstSent(tr, msg) ==
    LET at == {i \in 1..Len(tr) : tr[i].op = "kasa" /\ tr[i].msg = msg}
    IN  IF at = {} THEN 0 ELSE CHOOSE i \in at : \A k \in at : i <= k

\* C18: a run of loop() that calls porch_on sends the 'on' command only
\* after it has sent the state query and the switch's answer did not hold
\* "relay_state":1; when the answer holds it, the run sends no 'on' command,
\* leaves the 'Porch light ON' event as it was and leaves the auto-off
\* deadline as it was.
C18_OnOnlyWhenNotReportedOn ==
    [][ (the_time' # the_time /\ Tried(ev'.tr, {"porch_on"})) =>
          /\ Sent(ev'.tr, set_relay_on) > 0 =>
               /\ ev'.sw # "on"
               /\ FirstSent(ev'.tr, get_sysinfo) > 0
               /\ FirstSent(ev'.tr, get_sysinfo) < FirstSent(ev'.tr, set_relay_on)
          /\ (ev'.sw = "on" /\ wl') =>
               /\ Sent(ev'.tr, get_sysinfo) = 1
               /\ Sent(ev'.tr, set_relay_on) = 0
               /\ g'.logTimePorchOn = g.logTimePorchOn
               /\ ev'.deadline = g.porch_auto_off_time ]_vars

\* the porch light was switched on by hand: the first porch_on of the
\* controller asks, is told "on", and leaves command, event and deadline be
C18_FoundOnLeftAlone ==
    /\ Tried(ev.tr, {"porch_on"})
    /\ ev.sw = "on"
    /\ Sent(ev.tr, get_sysinfo) = 1
    /\ Sent(ev.tr, set_relay_on) = 0
    /\ ~hist.owed
    /\ g.logTimePorchOn = 0
    /\ g.porch_auto_off_time = 0

\* C19: a run of loop() that calls porch_off sends the 'off' command exactly
\* when its connection to the switch succeeds, and then clears the
\* deadline; otherwise the deadline stays set, at millis() + 10000 when the
\* Wi-Fi is down and at millis() + 60000 when the connection failed.
C19_RetryKeepsDeadlineSet ==
    LET part == {i \in 1..Len(ev.tr) : Caller(ev.tr, i) = "porch_off"}
        reached == \E i \in part : ev.tr[i].op = "connect kasa"
        off == \E i \in part : ev.tr[i].op = "kasa" /\ ev.tr[i].msg = set_relay_off
    IN  Tried(ev.tr, {"porch_off"}) =>
          /\ off <=> reached
          /\ off => g.porch_auto_off_time = 0
          /\ ~off =>
               /\ g.porch_auto_off_time # 0
               /\ g.porch_auto_off_time =
                      ULPlus(millis(ev), IF ev.linked THEN porch_retry_noconn
                                         ELSE porch_retry_nowifi)

\* the functions that talk to the porch switch
KasaCallers == {"porch_on", "porch_off", "porchLightHeartbeat"}

\* C21: the session with the porch switch goes closed, connecting, then
\* sent and closed or failed and closed: when porch_on, porch_off or
\* porchLightHeartbeat returns, no connection to the switch is open, every
\* connection that was made carried one command, and none is open between
\* two runs of loop().
C21_SwitchSessionClosedOnReturn ==
    /\ \A i \in 1..Len(ev.tr) :
         (ev.tr[i].op = "returned" /\ Caller(ev.tr, i) \in KasaCallers)
             => ev.tr[i].msg # "kasa"
    /\ \A i \in 1..Len(ev.tr) :
         (ev.tr[i].op = "connect kasa" /\ Caller(ev.tr, i) \in KasaCallers)
             => /\ i < Len(ev.tr)
                /\ ev.tr[i + 1].op = "kasa"
                /\ i + 2 <= Len(ev.tr)
                /\ ev.tr[i + 2].op \in {"returned", "connect kasa", "connect kasa failed"}
    /\ g.client # "kasa"

\* porch_on has asked the switch, sent 'on' on a second connection and
\* returned with the client closed
C21_TwoSessionsBothClosed ==
    /\ Count(ev.tr, "connect kasa") = 2
    /\ Sent(ev.tr, set_relay_on) = 1
    /\ \E i \in 1..Len(ev.tr) :
         /\ ev.tr[i].op = "returned"
         /\ Caller(ev.tr, i) = "porch_on"
         /\ ev.tr[i].msg = "closed"

\* C22: the telemetry session is independent of the switch protocol: a run
\* of loop() that starts with the session open and sends a command to the
\* porch switch ends with the session still open and has made no new
\* telemetry connection.
C22_TelemetrySessionOutlivesSwitchCommands ==
    [][ ( /\ ticks' = ticks + 1
          /\ g.client = "ssl"
          /\ wl
          /\ Count(ev'.tr, "kasa") > 0 )
        => /\ g'.client = "ssl"
           /\ ~Tried(ev'.tr, {"connect ssl", "connect ssl failed"}) ]_vars

\* the run handed the message of slot i to form_log
Handed(tr, i) ==
    \E k \in 1..Len(tr) : tr[k].op = "form_log" /\ tr[k].msg = events[i].msg

\* form_log wrote the request for slot i
Logged(tr, i) ==
    \E k \in 1..Len(tr) : tr[k].op = "GET" /\ tr[k].msg = events[i].msg

\* C23: a run of loop() hands at most one event slot to form_log, and only
\* when nothing has been detected at either sensor for more than 3000 ms; a
\* slot goes from pending to empty only in a run in which form_log sent it,
\* and a slot that was handed over and not sent, or not handed over, stays
\* pending with its timestamp.
C23_OneSlotWhenQuietClearedOnSuccess ==
    [][ ticks' = ticks + 1 =>
          /\ Count(ev'.tr, "form_log") <= 1
          /\ Tried(ev'.tr, {"form_log"}) =>
                 (hist'.sinceDet = -1 \/ hist'.sinceDet > 3000)
          /\ \A i \in 1..numEvents :
                LET slot == events[i].timestamp
                    kept == {g[slot], Stamp(the_time'),
                             StampTwice(the_time', ULPlus(the_time', ev'.tick)),
                             StampTwice(millis(ev'), millis2(ev'))}
                IN  /\ (g[slot] # 0 /\ g'[slot] = 0) => Logged(ev'.tr, i)
                    /\ (Handed(ev'.tr, i) /\ ~Logged(ev'.tr, i)) =>
                           /\ g'[slot] # 0
                           /\ g'[slot] \in kept
                    /\ (g[slot] # 0 /\ ~Handed(ev'.tr, i)) =>
                           g'[slot] \in kept ]_vars

\* C24: a quiet run of loop() that finds no slot pending runs exactly one of
\* keepSSLWarm and porchLightHeartbeat (and no form_log): keepSSLWarm when
\* last_ssl_activity was set more than 25000 ms ago, porchLightHeartbeat
\* otherwise; keepSSLWarm writes the no-op header when the client is
\* connected and makes a new connection when it is not.
C24_KeepAliveWhenIdleElseHeartbeat ==
    [][ (ticks' = ticks + 1 /\ ev'.quiet /\ ev'.pending = 0) =>
          LET idle == Older(hist.sinceSsl, ev'.step) - hist.sslLag
              warm == Count(ev'.tr, "keepSSLWarm")
              beat == Count(ev'.tr, "porchLightHeartbeat")
          IN  /\ warm + beat = 1
              /\ ~Tried(ev'.tr, {"form_log"})
              /\ (warm = 1) <=> (idle > 25000)
              /\ \A k \in 1..Len(ev'.tr) :
                    ev'.tr[k].op = "keepSSLWarm" =>
                        /\ k < Len(ev'.tr)
                        /\ IF ev'.tr[k].msg = "closed"
                           THEN ev'.tr[k + 1].op \in {"connect ssl", "connect ssl failed"}
                           ELSE /\ ev'.tr[k + 1].op = "X-KeepAlive"
                                /\ ~Tried(ev'.tr, {"connect ssl", "connect ssl failed"}) ]_vars

\* nothing pending, the session open and idle for 25100 ms: the no-op header
\* is written
C24_NoOpOnOpenSession ==
    /\ ev.quiet
    /\ ev.pending = 0
    /\ ev.step = 25100
    /\ Tried(ev.tr, {"X-KeepAlive"})
    /\ ~Tried(ev.tr, {"porchLightHeartbeat", "form_log"})
    /\ g.client = "ssl"

\* C25: the slot a run hands to form_log is the first pending one in the
\* order of the table (Wi-Fi reconnect, light on, porch on, light off, switch
\* failure), whatever the order of the events; a quiet run with a slot
\* pending hands one over.
C25_FirstPendingInTableOrder ==
    /\ \A i \in 1..numEvents :
         Handed(ev.tr, i) => \A j \in 1..(i - 1) : g[events[j].timestamp] = 0
    /\ (ev.quiet /\ \E j \in 1..numEvents : g[events[j].timestamp] # 0)
           => Tried(ev.tr, {"form_log"})
    /\ <<events[1].msg, events[2].msg, events[3].msg, events[4].msg, events[5].msg>>
         = <<"WiFi RECONNECTED", "Stair light ON", "Porch light ON",
             "Stair light OFF", "Kasa Porch Timeout">>

\* the Wi-Fi reconnect of this run is sent while the older 'Stair light OFF'
\* is pending
C25_NewerEventSentFirst ==
    /\ Logged(ev.tr, 1)
    /\ g.logTimeWiFi = 0
    /\ g.logTimeOff # 0
    /\ ULess(g.logTimeOff, ev.the_time)
    /\ \E k \in 1..Len(ev.tr) : ev.tr[k].op = "GET" /\ ev.tr[k].ago = 0

\* C27: after a connection to the log server has failed, no run of loop()
\* tries to connect to it again before the backoff interval (connect_try_time
\* in v2.x) has passed, also when a slot is pending in every quiet run.
C27_NoTelemetryConnectDuringCooldown ==
    [][ ( /\ ticks' = ticks + 1
          /\ Tried(ev.tr, {"connect ssl failed"})
          /\ ev'.step < connect_try_time )
        => ~Tried(ev'.tr, {"connect ssl", "connect ssl failed"}) ]_vars

\* C28: isItDark() answers, for every epoch and minute of the day: with an
\* epoch below 1735689600, true iff minute >= 1020 or minute <= 480; otherwise
\* true iff minute >= cachedSunset - 15 or minute <= cachedSunrise + 15, the
\* cache as the call leaves it; it answers without waiting for anything.
C28_NightWindowOrSunTimes ==
    probe.of = "dark" =>
        /\ probe.ret \in {0, 1}
        /\ \A k \in 1..Len(probe.tr) : probe.tr[k].op \in {"isItDark", "Dusk2Dawn"}
        /\ (probe.ret = 1) <=>
               IF probe.epochTime >= 0 /\ probe.epochTime < 1735689600
               THEN probe.currentMin >= 1020 \/ probe.currentMin <= 480
               ELSE \/ probe.currentMin >= probe.cachedSunset - 15
                    \/ probe.currentMin <= probe.cachedSunrise + 15

\* with network time and the cache filled by this call, 17:02 is the last
\* minute of the day: sunset is at 17:18, and it is dark from 17:03 on
C28_LastMinuteOfDay ==
    /\ probe.of = "dark"
    /\ probe.epochTime = 1768723200
    /\ probe.currentMin = 1022
    /\ probe.cache.cachedSunset = 0
    /\ probe.cachedSunset = 1038
    /\ probe.ret = 0

\* the solar cache
SolarCache(gl) == <<gl.cachedSunrise, gl.cachedSunset, gl.lastSunUpdate>>

\* C29: sunrise and sunset are computed at most once per 3600000 ms, they
\* are computed by the first isItDark() call made with a plausible epoch
\* after boot, and a call that takes the fixed night window leaves the
\* cache as it was.
C29_SunTimesHourlyFromFirstCall ==
    [][ (the_time' # the_time /\ ev'.dark # "unasked") =>
          /\ Tried(ev'.tr, {"Dusk2Dawn"}) =>
                 (hist.sinceSun = -1 \/ Older(hist.sinceSun, ev'.step) > 3600000)
          /\ (epochTime >= 1735689600 /\ hist.sinceSun = -1) =>
                 /\ Tried(ev'.tr, {"Dusk2Dawn"})
                 /\ g'.lastSunUpdate = the_time'
          /\ epochTime < 1735689600 => SolarCache(g') = SolarCache(g)
          /\ ~Tried(ev'.tr, {"Dusk2Dawn"}) => SolarCache(g') = SolarCache(g) ]_vars

\* C30: porch_on is called only in a run for which the lower sensor made a
\* detection more than 4000 ms and less than 40000 ms before; with no lower
\* detection since boot it is never called.
C30_OnlyAfterRealLowerDetection ==
    Tried(ev.tr, {"porch_on"}) =>
        (hist.sinceLow > 4000 /\ hist.sinceLow < 40000)

C31_DeadlineKeptWhenNoOnCommand ==
    [][ ( /\ ticks' = ticks + 1
          /\ Tried(ev'.tr, {"porch_on"})
          /\ Sent(ev'.tr, set_relay_on) = 0 )
        => /\ ev'.deadline = g.porch_auto_off_time
           /\ Tried(ev'.tr, {"porch_off"})
                 <=> PorchOffDue(ev'.the_time, g.porch_auto_off_time) ]_vars

\* a second transit ends at the upper sensor in the run in which the deadline
\* of the first falls due: porch_on finds the relay on, porch_off follows in
\* the same run and sends the 'off' command
C31_OnAndOffInOneRun ==
    /\ Tried(ev.tr, {"porch_on"})
    /\ Tried(ev.tr, {"porch_off"})
    /\ ev.sw = "on"
    /\ Sent(ev.tr, set_relay_on) = 0
    /\ Sent(ev.tr, set_relay_off) = 1
    /\ ev.deadline # 0
    /\ hist.dueAtCheck = 0
    /\ g.porch_auto_off_time = 0

\* C32: no run of loop() writes to the one client while it is connected to
\* the wrong peer: the form_log request and the keep-alive header go out only
\* on a connection to the log server, switch commands only on a connection to
\* the switch; and between runs the client is closed or connected to the
\* log server.
C32_ClientNeverUsedForWrongPeer ==
    /\ ~ev.stray
    /\ g.client \in {"closed", "ssl"}

\* one run sends the 'off' command to the switch, then connects to the log
\* server anew and writes an event there
C32_SwitchThenLogServerInOneRun ==
    /\ Sent(ev.tr, set_relay_off) = 1
    /\ Tried(After(ev.tr, "porch_off"), {"connect ssl"})
    /\ Tried(After(ev.tr, "porch_off"), {"GET"})
    /\ g.client = "ssl"

\* C33: a deadline that was just stored is never lost: after a run of loop()
\* that sent the 'on' command and no 'off' command, and after a run whose
\* porch_off could not send the 'off' command, porch_auto_off_time is not 0,
\* whatever the clock reads.
C33_StoredDeadlineNeverZero ==
    ( /\ Sent(ev.tr, set_relay_off) = 0
      /\ Sent(ev.tr, set_relay_on) > 0 \/ Tried(ev.tr, {"porch_off"}) )
    => g.porch_auto_off_time # 0

\* C34: a quiet run of loop() that finds a slot pending calls form_log once,
\* for the first pending slot, and calls neither keepSSLWarm nor
\* porchLightHeartbeat; no other slot is handed over or sent, whether the
\* send succeeds or fails.
C34_PendingSlotBlocksTheRest ==
    (ev.quiet /\ ev.pending # 0) =>
        /\ Count(ev.tr, "form_log") = 1
        /\ Handed(ev.tr, ev.pending)
        /\ ~Tried(ev.tr, {"keepSSLWarm", "porchLightHeartbeat", "X-KeepAlive"})
        /\ \A i \in 1..numEvents :
              i # ev.pending => (~Handed(ev.tr, i) /\ ~Logged(ev.tr, i))
        /\ Count(ev.tr, "GET") <= 1

\* 'WiFi RECONNECTED' cannot be sent, the log server being unreachable:
\* 'Stair light ON' and 'Kasa Porch Timeout' behind it stay pending and the
\* keep-alive, due for more than 25 s, is not made
C34_FailedSendBlocksLaterSlot ==
    /\ ev.quiet
    /\ ev.pending = 1
    /\ Tried(ev.tr, {"connect ssl failed"})
    /\ g.logTimeWiFi # 0
    /\ g.logTimeOn # 0
    /\ g.logTimeKasaFail # 0
    /\ SslIdle(ev.the_time, g.last_ssl_activity)
    /\ ~Tried(ev.tr, {"keepSSLWarm", "porchLightHeartbeat"})

\* the clock values read when event i of the table occurred in run `run` of
\* loop(), begun with globals gl and Wi-Fi status link: none when it did not
\* occur, two when the stamp reads millis() twice.  The Wi-Fi is found connected after it was not, the
\* stair light goes on, the 'on' command is sent, the stair light goes off,
\* the first connection of porch_on fails.
Occurrence(i, gl, link, run) ==
    LET tr == run.tr
        byOn(k) == Caller(tr, k) = "porch_on"
        failed == \E k \in 1..Len(tr) :
                     /\ tr[k].op = "connect kasa failed" /\ byOn(k)
                     /\ \A j \in 1..(k - 1) : ~(tr[j].op = "connect kasa" /\ byOn(j))
        top == {run.the_time, ULPlus(run.the_time, run.tick)}
        now == {millis(run), millis2(run)}
    IN  CASE i = 1 -> IF link /\ ~gl.was_connected THEN top ELSE {}
          [] i = 2 -> IF Tried(tr, {"light on"}) THEN {run.the_time} ELSE {}
          [] i = 3 -> IF Sent(tr, set_relay_on) > 0 THEN now ELSE {}
          [] i = 4 -> IF Tried(tr, {"light off"}) THEN {run.the_time} ELSE {}
          [] i = 5 -> IF failed THEN now ELSE {}

\* C35: after a run of loop() each event slot is 0 when the run sent it;
\* otherwise, when its event occurred in the run, it holds a clock value read
\* at that occurrence, 1 standing for the clock value 0, whatever it held
\* before; otherwise it is as it was.  With all slots 0 at boot, a slot is
\* then 0 exactly when no occurrence is waiting, and holds the last one
\* otherwise.
C35_SlotHoldsLastUnsentOccurrence ==
    [][ ticks' = ticks + 1 =>
          \A i \in 1..numEvents :
             LET slot == events[i].timestamp
                 occ == Occurrence(i, g, wl, ev')
             IN  IF Logged(ev'.tr, i) THEN g'[slot] = 0
                 ELSE IF occ # {}
                      THEN \E t \in occ : g'[slot] = IF t = 0 THEN 1 ELSE t
                      ELSE g'[slot] = g[slot] ]_vars

\* C20: whenever the controller has sent an 'on' command it eventually
\* sends an 'off' command.
C20_OnLeadsToOff ==
    hist.owed ~> ~hist.owed

====
